---- MODULE Spec2Model ----
(***************************************************************************)
(* A model of the fault-injection crate (src/src/lib.rs): the three        *)
(* process-wide atomics FAULT_INJECT_COUNTER, SLEEPINESS and TRIGGER_FN,   *)
(* set_trigger_function, the expansion of the maybe! macro, executed by    *)
(* several threads one atomic access at a time, and the `?` that the       *)
(* fallible! macro puts after it.                                          *)
(***************************************************************************)
EXTENDS Integers, Sequences, FiniteSets, TLC

\* ------------------------------------------------------------- bounds

\* Evaluations of maybe! started in one run, nested ones included: by the
\* concurrent threads of Spec, and by the single thread of SpecSeq.
MaxCalls == 2
MaxSeqCalls == 4
\* The driver stores 0..MaxArm or u64::MAX in the counter.
MaxArm == 3
\* Evaluations of maybe! started in one run of SpecDelay.
MaxDelayCalls == 2
\* Evaluations of maybe! started in one run of SpecStrict, and the
\* fallible! statements of one function.
MaxStrictCalls == 3
MaxStmts == 2
\* Evaluations of maybe! started in one run of SpecRearm.
MaxRearmCalls == 4

\* The threads that evaluate maybe! concurrently.
Threads == { 1, 2 }

\* ---------------------------------------------------- 64-bit arithmetic
\* A u64 is four 16-bit limbs, most significant first, so that the counter
\* keeps its real width.

LimbBase == 2 ^ 16

U64(n) == <<0, 0, 0, n>>

U64_MAX == <<LimbBase - 1, LimbBase - 1, LimbBase - 1, LimbBase - 1>>

\* Faulty variant of WrappingSub1: the counter is left as it is (a load in
\* place of the fetch_sub).
NoDecrement(x) == x

\* The new value AtomicU64::fetch_sub(1, _) stores: x - 1 modulo 2^64.  A
\* limb is decremented when every less significant limb is 0 (the borrow).
WrappingSub1(x) ==
    [i \in 1..4 |->
        IF \A j \in (i + 1)..4 : x[j] = 0 THEN (x[i] - 1) % LimbBase ELSE x[i]]

\* u16::trailing_zeros: 16 for 0.
RECURSIVE TrailingZeros(_, _)
TrailingZeros(x, bits) ==
    IF bits = 0 THEN 0
    ELSE IF x % 2 = 1 THEN 0
    ELSE 1 + TrailingZeros(x \div 2, bits - 1)

\* A u32 is two 16-bit limbs, most significant first.
U32(n) == <<0, n>>

U32_MAX == <<LimbBase - 1, LimbBase - 1>>

\* x - 1 for a u32 x > 0.
Pred32(x) ==
    IF x[2] = 0 THEN << x[1] - 1, LimbBase - 1 >> ELSE << x[1], x[2] - 1 >>

\* The u32 product a * x for a in 0..16: whether the exact product leaves
\* the 32 bits, and the product modulo 2^32.
MulU32(a, x) ==
    LET lo == a * x[2]
        hi == a * x[1] + lo \div LimbBase
    IN [ overflow |-> hi >= LimbBase,
         val |-> << hi % LimbBase, lo % LimbBase >> ]

\* `rdtsc.trailing_zeros() as u32 * sleepiness`
RandomSleeps(rdtsc, sleepiness) == MulU32(TrailingZeros(rdtsc, 16), sleepiness)

\* What the multiplication leaves in random_sleeps.  The operator * of u32
\* panics on overflow in a build with overflow checks (the default of the
\* dev and test profiles) and wraps in a build without them.
SleepOutcomes(m) ==
    IF m.overflow
    THEN { [panic |-> TRUE, sleeps |-> U32(0)],
           [panic |-> FALSE, sleeps |-> m.val] }
    ELSE { [panic |-> FALSE, sleeps |-> m.val] }

\* `if sleepiness > 0 { .. }` is skipped: no iterations.
NoSleeps == [panic |-> FALSE, sleeps |-> U32(0)]

\* ------------------------------------------------------------- values

\* io::Result values.
Ok(v) == [tag |-> "Ok", val |-> v, kind |-> "", msg |-> <<>>]

Err(k, m) == [tag |-> "Err", val |-> "", kind |-> k, msg |-> m]

\* No value yet.
NoResult == [tag |-> "None", val |-> "", kind |-> "", msg |-> <<>>]

NoU64 == <<>>

\* The call site of a maybe!: CRATE_NAME, file!() and line!().  Thread t
\* runs the code of file t, whose maybe! at nesting depth d is on line 10*d.
SiteAt(t, d) ==
    [crate |-> "app", file |-> "src/worker" \o ToString(t) \o ".rs",
     line |-> 10 * d]

\* What the wrapped expression evaluates to when it is not itself a maybe!.
LeafResults == { Ok("v1"), Err("NotFound", <<"entity not found">>) }

\* The wrapped expression $e: a leaf that yields res, or a maybe! that
\* wraps the expression inner.
Leaf(r) == [nested |-> FALSE, res |-> r, inner |-> <<>>]

Nested(x) == [nested |-> TRUE, res |-> NoResult, inner |-> << x >>]

\* The expressions the threads evaluate under maybe!: io() and maybe!(io()).
LeafExprs == { Leaf(r) : r \in LeafResults }

Exprs == LeafExprs \cup { Nested(x) : x \in LeafExprs }

\* The bodies of the functions that evaluate fallible!: fallible!(e1);
\* .. fallible!(en); Ok(())
Programs == UNION { [1..n -> Exprs] : n \in 1..MaxStmts }

\* The u16 the timestamp counter is truncated to: an odd value, and the 0b10
\* of the targets that have no counter.
Timestamps == { 1, 2 }

\* TRIGGER_FN: the null pointer, or a registered function.  "print" is the
\* trigger_fn of the doc test; "rearm" re-sets the counter, the use the
\* documentation of set_trigger_function names.
NullFn == "null"

TriggerFns == { "print", "rearm" }

\* The values the driver stores in SLEEPINESS.
SleepinessValues == { U32(0), U32(1) }

\* The delay step at the ends of its ranges: the timestamps 0 (16 trailing
\* zeros) and 1 (none), and the values 0, 1 and 2^28 of SLEEPINESS.  They
\* are the ones that keep the yield loop short enough to run step by step.
DelayTimestamps == { 0, 1 }

DelaySleepinessValues == { U32(0), U32(1), << LimbBase \div 16, 0 >> }

\* The value the "rearm" trigger function stores in the counter.
RearmValue == U64(2)

ArmValues == { U64(n) : n \in 0..MaxArm } \cup { U64_MAX }

\* The values the driver stores in the counter while the threads of Spec
\* run: 0, every count the calls of one run can bring down to the trigger,
\* and u64::MAX.
ParArmValues == { U64(n) : n \in 0..MaxCalls } \cup { U64_MAX }

\* ----------------------------------------------------------- formatting

\* "{}:{}:{}" of CRATE_NAME, file!(), line!()
FormatSite(s) == << s.crate, ":", s.file, ":", ToString(s.line) >>

\* Faulty variant of InjectedMsg: the line number is left out.
InjectedMsgNoLine(s) == << "injected fault at ", s.crate, ":", s.file >>

\* format!("injected fault at {}:{}:{}", CRATE_NAME, file!(), line!())
InjectedMsg(s) == << "injected fault at " >> \o FormatSite(s)

\* Faulty variant of ForwardMsg: the original description comes first.
ForwardMsgSuffixFirst(s, m) == m \o << " -> " >> \o FormatSite(s)

\* format!("{}:{}:{} -> {}", CRATE_NAME, file!(), line!(), e.to_string())
ForwardMsg(s, m) == FormatSite(s) \o << " -> " >> \o m

\* The arguments of (f)(CRATE_NAME, file!(), line!())
TriggerArgs(s) == << s.crate, s.file, s.line >>

\* ------------------------------------------------------------- state

VARIABLES
    FAULT_INJECT_COUNTER,  \* the AtomicU64
    SLEEPINESS,            \* the AtomicU32
    TRIGGER_FN,            \* the AtomicPtr<Trigger>
    stack,     \* per thread: its maybe! expansions in progress, innermost last
    calls,     \* history: the evaluations since the last store to the
               \* counter, in the order of their fetch_sub
    armed,     \* history: the value last stored in the counter
    ncalls,    \* history: evaluations started
    trig,      \* history: the last evaluation whose trigger function stored
               \* to the counter, if no driver store followed
    caller     \* per thread: the function it runs that evaluates fallible!
               \* statements, and what that function returned

vars ==
    << FAULT_INJECT_COUNTER, SLEEPINESS, TRIGGER_FN, stack, calls, armed,
       ncalls, trig, caller >>

statics == << FAULT_INJECT_COUNTER, SLEEPINESS, TRIGGER_FN >>

Top(t) == stack[t][Len(stack[t])]

Running(t, pc) == stack[t] # <<>> /\ Top(t).pc = pc

SetTop(t, f) == [stack EXCEPT ![t][Len(stack[t])] = f]

\* No function that evaluates fallible! is running or has returned.
NoCaller ==
    [ active |-> FALSE, prog |-> <<>>, next |-> 0, started |-> 0,
      got |-> <<>>, vals |-> <<>>, ret |-> NoResult ]

Init ==
    /\ FAULT_INJECT_COUNTER = U64_MAX
    /\ SLEEPINESS = U32(0)
    /\ TRIGGER_FN = NullFn
    /\ stack = [t \in Threads |-> <<>>]
    /\ calls = <<>>
    /\ armed = U64_MAX
    /\ ncalls = 0
    /\ trig = <<>>
    /\ caller = [t \in Threads |-> NoCaller]

\* ------------------------------------------------------------ driver

RECURSIVE ClearSlots(_)
ClearSlots(frames) ==
    IF frames = <<>> THEN <<>>
    ELSE Append(ClearSlots(SubSeq(frames, 1, Len(frames) - 1)),
                [frames[Len(frames)] EXCEPT !.slot = 0])

\* FAULT_INJECT_COUNTER.store(n, Release), by the driver or by a trigger
\* function.  The histories start again; evaluations that decremented
\* before the store are no longer part of them.  stk is the stacks after
\* the storing step's own changes.
Store(n, stk) ==
    /\ FAULT_INJECT_COUNTER' = n
    /\ armed' = n
    /\ calls' = <<>>
    /\ stack' = [t \in Threads |-> ClearSlots(stk[t])]

Arm(n) ==
    /\ Store(n, stack)
    /\ trig' = <<>>
    /\ UNCHANGED << SLEEPINESS, TRIGGER_FN, ncalls, caller >>

\* SLEEPINESS.store(s, Release)
SetSleepiness(s) ==
    /\ SLEEPINESS' = s
    /\ UNCHANGED << FAULT_INJECT_COUNTER, TRIGGER_FN, stack, calls, armed,
                    ncalls, trig, caller >>

\* set_trigger_function(f)
set_trigger_function(f) ==
    /\ TRIGGER_FN' = f
    /\ UNCHANGED << FAULT_INJECT_COUNTER, SLEEPINESS, stack, calls, armed,
                    ncalls, trig, caller >>

\* A thread calls a function whose body is prog, as the doc test and the
\* example call use_it() and main().
use_it(t, prog, limit) ==
    /\ ncalls < limit
    /\ stack[t] = <<>> /\ ~ caller[t].active
    /\ caller' = [caller EXCEPT ![t] =
          [NoCaller EXCEPT !.active = TRUE, !.prog = prog, !.next = 1]]
    /\ UNCHANGED << statics, stack, calls, armed, ncalls, trig >>

\* ------------------------------------------------------------- maybe!

\* Where the expansion goes after `let sleepiness = SLEEPINESS.load(..)`:
\* the yield loop runs while iterations remain.
AfterSleeps(sleeps) == IF sleeps # U32(0) THEN "yield" ELSE "fetch_sub"

\* The expansion of a maybe! at site, after the delay step left o.  A
\* panic unwinds the thread: the expansion takes no further step.
NewFrame(site, expr, o) ==
    [ site |-> site, expr |-> expr,
      pc |-> IF o.panic THEN "panic" ELSE AfterSleeps(o.sleeps),
      sleeps |-> o.sleeps, prev |-> NoU64, tfn |-> NullFn, cb |-> <<>>,
      ev |-> 0, e |-> NoResult, slot |-> 0 ]

\* The frames of a thread that starts to evaluate the $e of its innermost
\* maybe!.  ev is history: the number of times the maybe! evaluated its $e.
Evaluating(frames) ==
    IF frames = <<>> THEN frames
    ELSE [frames EXCEPT ![Len(frames)].ev = @ + 1]

\* A thread reaches a maybe!($e): as a statement of its own, as the next
\* fallible!($e) of the function it runs, or as the $e of the maybe! it is
\* evaluating.  It loads SLEEPINESS and, when that is positive, reads the
\* timestamp, rdtsc, and computes random_sleeps.
Begin(t, expr, limit, rdtsc) ==
    /\ ncalls < limit
    /\ \/ stack[t] = <<>> /\ ~ caller[t].active /\ expr \in Exprs
       \/ /\ stack[t] = <<>> /\ caller[t].active
          /\ expr = caller[t].prog[caller[t].next]
       \/ /\ Running(t, "eval")
          /\ Top(t).expr.nested
          /\ expr = Top(t).expr.inner[1]
    /\ \E o \in (IF SLEEPINESS # U32(0)
                  THEN SleepOutcomes(RandomSleeps(rdtsc, SLEEPINESS))
                  ELSE { NoSleeps }) :
          stack' = [stack EXCEPT ![t] =
              Append(Evaluating(@),
                     NewFrame(SiteAt(t, Len(stack[t]) + 1), expr, o))]
    /\ ncalls' = ncalls + 1
    /\ caller' = IF stack[t] = <<>> /\ caller[t].active
                 THEN [caller EXCEPT ![t].started = @ + 1]
                 ELSE caller
    /\ UNCHANGED << statics, calls, armed, trig >>

\* One iteration of `for _ in 0..random_sleeps { yield_now() }`
Yield(t) ==
    /\ Running(t, "yield")
    /\ LET f == Top(t) IN
          stack' = SetTop(t, [f EXCEPT !.sleeps = Pred32(@),
                                       !.pc = AfterSleeps(Pred32(f.sleeps))])
    /\ UNCHANGED << statics, calls, armed, ncalls, trig, caller >>

\* Faulty variant of IsTrigger: the trigger comes one call late.
IsTriggerAtZero(prev) == prev = U64(0)

\* Faulty variant of IsTrigger: the trigger comes at 1 and again at 0.
IsTriggerUpToOne(prev) == prev = U64(1) \/ prev = U64(0)

\* Faulty variant of IsTrigger: the trigger comes at u64::MAX as well.
IsTriggerAtMax(prev) == prev = U64(1) \/ prev = U64_MAX

\* `FAULT_INJECT_COUNTER.fetch_sub(1, AcqRel) == 1`
IsTrigger(prev) == prev = U64(1)

\* The atomic read-modify-write and the branch on its result.
FetchSub(t) ==
    /\ Running(t, "fetch_sub")
    /\ LET f == Top(t)
           prev == FAULT_INJECT_COUNTER
       IN /\ FAULT_INJECT_COUNTER' = WrappingSub1(prev)
          /\ calls' = Append(calls,
                 [ thread |-> t, site |-> f.site, expr |-> f.expr,
                   prev |-> prev, tfn |-> NullFn, cb |-> <<>>,
                   ev |-> 0, e |-> NoResult, res |-> NoResult ])
          /\ stack' = SetTop(t, [f EXCEPT
                 !.prev = prev,
                 !.slot = Len(calls) + 1,
                 !.pc = IF IsTrigger(prev) THEN "load_trigger" ELSE "eval"])
    /\ UNCHANGED << SLEEPINESS, TRIGGER_FN, armed, ncalls, trig, caller >>

\* Faulty variant of AfterLoadTrigger: the trigger function is never
\* called.
SkipTrigger(tfn) == "inject"

\* `if !trigger_fn.is_null() { .. (f)(..) }`
AfterLoadTrigger(tfn) == IF tfn # NullFn THEN "call_trigger" ELSE "inject"

\* `let trigger_fn = TRIGGER_FN.load(Acquire)`
LoadTrigger(t) ==
    /\ Running(t, "load_trigger")
    /\ stack' = SetTop(t, [Top(t) EXCEPT !.tfn = TRIGGER_FN,
                                         !.pc = AfterLoadTrigger(TRIGGER_FN)])
    /\ UNCHANGED << statics, calls, armed, ncalls, trig, caller >>

\* `(f)(CRATE_NAME, file!(), line!())`: the trigger function runs in the
\* calling thread.  "rearm" stores RearmValue in the counter.  cb is
\* history: the arguments of the trigger calls this evaluation made.
CallTrigger(t) ==
    /\ Running(t, "call_trigger")
    /\ LET f == Top(t)
           g == [f EXCEPT !.cb = Append(@, TriggerArgs(f.site)),
                          !.pc = "inject"]
       IN IF f.tfn = "rearm"
          THEN /\ Store(RearmValue, SetTop(t, g))
               /\ trig' = << [ thread |-> t, site |-> f.site,
                               res |-> NoResult ] >>
               /\ UNCHANGED << SLEEPINESS, TRIGGER_FN, ncalls, caller >>
          ELSE /\ stack' = SetTop(t, g)
               /\ calls' = IF f.slot = 0 THEN calls
                           ELSE [calls EXCEPT ![f.slot].tfn = g.tfn,
                                              ![f.slot].cb = g.cb]
               /\ UNCHANGED << statics, armed, ncalls, trig, caller >>

\* Faulty variant of EarlyReturn: the function goes on after a failure.
NeverReturn(res) == FALSE

\* The `?` of fallible!: a failure is returned from the enclosing function
\* at once.
EarlyReturn(res) == res.tag = "Err"

\* The function c receives res from the maybe! of its current fallible!.
\* On Err the `?` returns it (From<io::Error> for io::Error is the
\* identity); on Ok the value of the fallible! is the unwrapped value and
\* the function goes on, to its closing Ok(()) after the last statement.
\* got is history: the results the maybe! calls handed over.
Question(c, res) ==
    LET d == [c EXCEPT !.got = Append(@, res)]
    IN IF EarlyReturn(res)
       THEN [d EXCEPT !.active = FALSE, !.ret = res]
       ELSE IF c.next = Len(c.prog)
       THEN [d EXCEPT !.vals = Append(@, res.val), !.active = FALSE,
                      !.ret = Ok("()")]
       ELSE [d EXCEPT !.vals = Append(@, res.val), !.next = @ + 1]

\* The maybe! f on top of t's stack yields res, which goes to the match of
\* the maybe! it is the $e of, if any, and else to the `?` of the fallible!
\* it belongs to, if any.
Produce(t, f, res) ==
    LET rest == SubSeq(stack[t], 1, Len(stack[t]) - 1)
    IN /\ stack' = [stack EXCEPT ![t] =
              IF rest = <<>> THEN <<>>
              ELSE [rest EXCEPT ![Len(rest)] =
                      [@ EXCEPT !.e = res, !.pc = "match"]]]
       /\ calls' = IF f.slot = 0 THEN calls
                   ELSE [calls EXCEPT ![f.slot] =
                           [@ EXCEPT !.tfn = f.tfn, !.cb = f.cb, !.ev = f.ev,
                                     !.e = f.e, !.res = res]]
       /\ caller' = IF rest = <<>> /\ caller[t].active
                    THEN [caller EXCEPT ![t] = Question(@, res)]
                    ELSE caller

\* Faulty variant of InjectedFault: the trigger yields no failure.
NoFault(site) == Ok("")

\* `Err(io::Error::new(ErrorKind::Other, format!("injected fault at ..")))`
InjectedFault(site) == Err("Other", InjectedMsg(site))

\* The evaluation f of thread t is the one trig keeps, and it has not
\* yielded its value yet.
IsRearming(t, f) ==
    /\ trig # <<>> /\ trig[1].thread = t /\ trig[1].res = NoResult
    /\ f.tfn = "rearm" /\ f.cb # <<>>

Inject(t) ==
    /\ Running(t, "inject")
    /\ Produce(t, Top(t), InjectedFault(Top(t).site))
    /\ trig' = IF IsRearming(t, Top(t))
               THEN << [trig[1] EXCEPT !.res = InjectedFault(Top(t).site)] >>
               ELSE trig
    /\ UNCHANGED << statics, armed, ncalls >>

\* Faulty variant of MatchResult: a failure of $e is swallowed.
MatchSwallow(site, e) == Ok(e.val)

\* `Ok(ok) => Ok(ok), Err(e) => Err(io::Error::new(e.kind(), format!(..)))`
MatchResult(site, e) ==
    IF e.tag = "Ok" THEN Ok(e.val)
    ELSE Err(e.kind, ForwardMsg(site, e.msg))

\* `match $e` where $e is not a maybe!: the expression is evaluated and
\* its value matched (no access to the statics in between).
EvalLeaf(t) ==
    /\ Running(t, "eval")
    /\ ~ Top(t).expr.nested
    /\ LET f == [Top(t) EXCEPT !.ev = @ + 1, !.e = Top(t).expr.res] IN
          Produce(t, f, MatchResult(f.site, f.e))
    /\ UNCHANGED << statics, armed, ncalls, trig >>

\* `match $e` where $e is a maybe! that has handed over its value.
Match(t) ==
    /\ Running(t, "match")
    /\ Produce(t, Top(t), MatchResult(Top(t).site, Top(t).e))
    /\ UNCHANGED << statics, armed, ncalls, trig >>

Next ==
    \/ \E n \in ParArmValues : Arm(n)
    \/ \E s \in SleepinessValues : SetSleepiness(s)
    \/ \E f \in TriggerFns : set_trigger_function(f)
    \/ \E t \in Threads, expr \in Exprs, rdtsc \in Timestamps :
          Begin(t, expr, MaxCalls, rdtsc)
    \/ \E t \in Threads : Yield(t)
    \/ \E t \in Threads : FetchSub(t)
    \/ \E t \in Threads : LoadTrigger(t)
    \/ \E t \in Threads : CallTrigger(t)
    \/ \E t \in Threads : Inject(t)
    \/ \E t \in Threads : EvalLeaf(t)
    \/ \E t \in Threads : Match(t)

Spec == Init /\ [][Next]_vars

\* The single-threaded program: thread 1 alone evaluates maybe!, one call
\* after the other, while the driver stores to the statics.
NextSeq ==
    \/ \E n \in ArmValues : Arm(n)
    \/ \E s \in SleepinessValues : SetSleepiness(s)
    \/ \E f \in TriggerFns : set_trigger_function(f)
    \/ \E expr \in Exprs, rdtsc \in Timestamps :
          Begin(1, expr, MaxSeqCalls, rdtsc)
    \/ Yield(1)
    \/ FetchSub(1)
    \/ LoadTrigger(1)
    \/ CallTrigger(1)
    \/ Inject(1)
    \/ EvalLeaf(1)
    \/ Match(1)

SpecSeq == Init /\ [][NextSeq]_vars

\* The strict variant: thread 1 alone runs functions that evaluate
\* fallible! statements, and maybe! statements between them, while the
\* driver stores to the counter.  No trigger function is registered.
NextStrict ==
    \/ \E n \in ArmValues : Arm(n)
    \/ \E prog \in Programs : use_it(1, prog, MaxStrictCalls)
    \/ \E expr \in Exprs, rdtsc \in Timestamps :
          Begin(1, expr, MaxStrictCalls, rdtsc)
    \/ FetchSub(1)
    \/ LoadTrigger(1)
    \/ Inject(1)
    \/ EvalLeaf(1)
    \/ Match(1)

SpecStrict == Init /\ [][NextStrict]_vars

\* The driver has registered the trigger function that re-sets the counter
\* and has stored 1 in the counter, as the doc test does, before the
\* threads start.
InitRearm ==
    /\ FAULT_INJECT_COUNTER = U64(1)
    /\ SLEEPINESS = U32(0)
    /\ TRIGGER_FN = "rearm"
    /\ stack = [t \in Threads |-> <<>>]
    /\ calls = <<>>
    /\ armed = U64(1)
    /\ ncalls = 0
    /\ trig = <<>>
    /\ caller = [t \in Threads |-> NoCaller]

\* The threads evaluate maybe! concurrently and the only stores to the
\* counter are those of the trigger function.
NextRearm ==
    \/ \E t \in Threads, expr \in Exprs, rdtsc \in Timestamps :
          Begin(t, expr, MaxRearmCalls, rdtsc)
    \/ \E t \in Threads : FetchSub(t)
    \/ \E t \in Threads : LoadTrigger(t)
    \/ \E t \in Threads : CallTrigger(t)
    \/ \E t \in Threads : Inject(t)
    \/ \E t \in Threads : EvalLeaf(t)
    \/ \E t \in Threads : Match(t)

SpecRearm == InitRearm /\ [][NextRearm]_vars

\* The delay step: one thread evaluates maybe!(io()) under the timestamps
\* and the values of SLEEPINESS at the ends of their ranges.  A thread that
\* can take a step of its own code takes it.
NextDelay ==
    \/ \E s \in DelaySleepinessValues : SetSleepiness(s)
    \/ \E expr \in LeafExprs, rdtsc \in DelayTimestamps :
          Begin(1, expr, MaxDelayCalls, rdtsc)
    \/ Yield(1)
    \/ FetchSub(1)
    \/ EvalLeaf(1)

SpecDelay ==
    /\ Init
    /\ [][NextDelay]_vars
    /\ WF_vars(Yield(1))
    /\ WF_vars(FetchSub(1))
    /\ WF_vars(EvalLeaf(1))

\* ------------------------------------------------------------- claims

\* A u64 below 2^16, and its value as a number.
IsSmall(x) == x[1] = 0 /\ x[2] = 0 /\ x[3] = 0

Low(x) == x[4]

\* An evaluation of the history that has yielded its value.
Finished(c) == c.res.tag # "None"

\* An evaluation whose $e is io() returning Ok.
PlainOk(c) == ~ c.expr.nested /\ c.expr.res.tag = "Ok"

\* The failure a trigger at site s is expected to yield: kind Other, the
\* message "injected fault at <crate>:<file>:<line>".
ExpectedInjected(s) ==
    [ tag |-> "Err", val |-> "", kind |-> "Other",
      msg |-> << "injected fault at ", s.crate, ":", s.file, ":",
                 ToString(s.line) >> ]

\* The prefix "<crate>:<file>:<line> -> " a forwarding site s is expected
\* to put before a message.
ExpectedPrefix(s) == << s.crate, ":", s.file, ":", ToString(s.line), " -> " >>

\* The counter was last set to a number N >= 1 below 2^16.
ArmedTo(n) == IsSmall(armed) /\ Low(armed) = n

\* C1. Countdown determinism: in a single thread, after the counter is set
\* to N >= 1, of a sequence of maybe! calls whose expressions all yield Ok,
\* the first N-1 return that Ok and the N-th returns the injected failure.
C1_CountdownDeterminism ==
    ( /\ IsSmall(armed) /\ Low(armed) >= 1
      /\ \A i \in DOMAIN calls : PlainOk(calls[i]) )
    => \A i \in DOMAIN calls :
          Finished(calls[i]) =>
            /\ i < Low(armed) => calls[i].res = calls[i].expr.res
            /\ i = Low(armed) => calls[i].res = ExpectedInjected(calls[i].site)

\* C1's case: armed to 3, two calls have returned Ok and the third the
\* injected failure.
C1_Witness ==
    /\ ArmedTo(3) /\ Len(calls) >= 3
    /\ \A i \in DOMAIN calls : PlainOk(calls[i])
    /\ calls[1].res.tag = "Ok" /\ calls[2].res.tag = "Ok"
    /\ calls[3].res = ExpectedInjected(calls[3].site)

\* C2. Saturation: after the counter is set to 0, every maybe! call that
\* follows, with no store in between, returns an injected failure.
C2_Saturation ==
    armed = U64(0) =>
        \A i \in DOMAIN calls :
            Finished(calls[i]) => calls[i].res = ExpectedInjected(calls[i].site)

\* C3. Once a call has counted the counter down to zero (it observed 1),
\* every later call returns an injected failure until the counter is set
\* again.
C3_FailsUntilRearmed ==
    \A i, j \in DOMAIN calls :
        (i < j /\ calls[i].prev = U64(1) /\ Finished(calls[j]))
        => calls[j].res = ExpectedInjected(calls[j].site)

\* C4. The counter never wraps: the decrement of a maybe! call made while
\* the counter is 0 leaves it at 0.
C4_NoUnderflow ==
    [][ (FAULT_INJECT_COUNTER = U64(0) /\ \E t \in Threads : FetchSub(t))
        => FAULT_INJECT_COUNTER' = U64(0) ]_vars

\* C5. Under concurrent calls from several threads whose expressions all
\* yield Ok, with the counter set to N and more than N calls made, exactly
\* N-1 calls return Ok and all the others return a failure.
C5_ConcurrentOutcomes ==
    ( /\ IsSmall(armed) /\ Low(armed) >= 1
      /\ Len(calls) > Low(armed)
      /\ \E i, j \in DOMAIN calls : calls[i].thread # calls[j].thread
      /\ \A i \in DOMAIN calls : PlainOk(calls[i]) /\ Finished(calls[i]) )
    => /\ Cardinality({ i \in DOMAIN calls : calls[i].res.tag = "Ok" })
            = Low(armed) - 1
       /\ Cardinality({ i \in DOMAIN calls : calls[i].res.tag = "Err" })
            = Len(calls) - (Low(armed) - 1)

\* C6. Distinct countdown positions: no two maybe! calls made after one
\* store to the counter, by any threads, observe the same pre-decrement
\* value.
C6_DistinctPositions ==
    \A i, j \in DOMAIN calls : i # j => calls[i].prev # calls[j].prev

\* C6's case: two threads have each decremented and neither call has
\* returned yet.
C6_Witness ==
    \E i, j \in DOMAIN calls :
        /\ calls[i].thread # calls[j].thread
        /\ ~ Finished(calls[i]) /\ ~ Finished(calls[j])

\* C7. Callback invocation count: in a single thread, with the counter set
\* to N >= 1, only the N-th call invokes the trigger function, it invokes
\* it once, and it does invoke it when it finds one registered.
C7_CallbackOnce ==
    (IsSmall(armed) /\ Low(armed) >= 1)
    => \A i \in DOMAIN calls :
          /\ i # Low(armed) => calls[i].cb = <<>>
          /\ Len(calls[i].cb) <= 1
          /\ (i = Low(armed) /\ Finished(calls[i]) /\ calls[i].tfn # NullFn)
             => Len(calls[i].cb) = 1

\* C7's case: armed to 2 with a function registered; three calls have
\* returned and the second alone invoked it.
C7_Witness ==
    /\ ArmedTo(2) /\ Len(calls) = 3
    /\ \A i \in DOMAIN calls : Finished(calls[i])
    /\ calls[1].cb = <<>> /\ Len(calls[2].cb) = 1 /\ calls[3].cb = <<>>

\* C8. On a trigger the registered function is invoked inside the
\* triggering call, before that call builds its injected failure, with the
\* crate, file and line of that call's site.
C8_CallbackBeforeFailure ==
    /\ \A t \in Threads : \A d \in DOMAIN stack[t] :
          LET f == stack[t][d] IN
          /\ (f.pc = "inject" /\ f.tfn # NullFn)
             => f.cb = << << f.site.crate, f.site.file, f.site.line >> >>
          /\ f.cb # <<>> => (f.pc = "inject" /\ f.prev = U64(1))
    /\ \A i \in DOMAIN calls :
          LET c == calls[i] IN
          (Finished(c) /\ c.prev = U64(1) /\ c.tfn # NullFn)
          => /\ c.cb = << << c.site.crate, c.site.file, c.site.line >> >>
             /\ c.res = ExpectedInjected(c.site)

\* C8's case: a call has invoked the registered function and is about to
\* build its failure, while another call is in the history.
C8_Witness ==
    \E t \in Threads :
        /\ Running(t, "inject") /\ Top(t).cb # <<>>
        /\ Len(calls) >= 2

\* C9. Origin fidelity: every injected failure has the kind Other and the
\* message "injected fault at <crate>:<file>:<line>" of the site of the
\* call that triggered, not of another site.
C9_OriginFidelity ==
    \A i \in DOMAIN calls :
        (Finished(calls[i]) /\ calls[i].prev = U64(1))
        => /\ calls[i].res.tag = "Err"
           /\ calls[i].res.kind = "Other"
           /\ calls[i].res.msg =
                << "injected fault at ", calls[i].site.crate, ":",
                   calls[i].site.file, ":", ToString(calls[i].site.line) >>

\* C9's case: a call at one site returned the injected failure after a
\* call at another site had decremented.
C9_Witness ==
    \E i, j \in DOMAIN calls :
        /\ j < i /\ calls[j].site # calls[i].site
        /\ calls[i].prev = U64(1) /\ Finished(calls[i])

\* C10. Forwarding preserves classification: a call that does not trigger
\* and whose expression fails with kind K and message m returns kind K and
\* the message "<its origin> -> m"; through two nested calls the failure
\* carries both origins, the outer one first, and m last.
C10_Forwarding ==
    \A i \in DOMAIN calls :
        LET c == calls[i] IN
        /\ (Finished(c) /\ c.prev # U64(1) /\ c.e.tag = "Err")
           => /\ c.res.tag = "Err"
              /\ c.res.kind = c.e.kind
              /\ c.res.msg = ExpectedPrefix(c.site) \o c.e.msg
        /\ ( /\ Finished(c) /\ c.expr.nested /\ c.prev # U64(1)
             /\ i < Len(calls) /\ calls[i + 1].prev # U64(1)
             /\ c.expr.inner[1].res.tag = "Err" )
           => /\ c.res.tag = "Err"
              /\ c.res.kind = c.expr.inner[1].res.kind
              /\ c.res.msg = ExpectedPrefix(c.site)
                             \o ExpectedPrefix(calls[i + 1].site)
                             \o c.expr.inner[1].res.msg

\* C10's case: a NotFound failure has come up through two nested calls.
C10_Witness ==
    \E i \in DOMAIN calls :
        /\ Finished(calls[i]) /\ calls[i].expr.nested
        /\ calls[i].res.kind = "NotFound"
        /\ calls[i].res.msg =
              << "app", ":", "src/worker1.rs", ":", "10", " -> ",
                 "app", ":", "src/worker1.rs", ":", "20", " -> ",
                 "entity not found" >>


\* The frames in progress, as pairs of a thread and a depth.
Frames == UNION { { t } \X DOMAIN stack[t] : t \in Threads }

FrameAt(p) == stack[p[1]][p[2]]

\* The pcs of the branch a trigger takes.
TriggerPcs == { "load_trigger", "call_trigger", "inject" }

\* What the wrapped expression of the evaluation c yielded: the value of
\* io(), or the value the inner maybe! handed over.
OpResult(c) == IF c.expr.nested THEN c.e ELSE c.expr.res

\* C11. No failure is swallowed and no success is altered: a maybe! call
\* returns Ok if and only if it is not the trigger and its wrapped
\* expression yielded Ok, and then it returns that expression's value.
C11_NoSwallowNoAlter ==
    \A i \in DOMAIN calls :
        LET c == calls[i] IN
        Finished(c) =>
            /\ c.res.tag \in { "Ok", "Err" }
            /\ c.res.tag = "Ok"
                 <=> (c.prev # U64(1) /\ OpResult(c).tag = "Ok")
            /\ c.res.tag = "Ok" => c.res.val = OpResult(c).val

\* C11's case: three calls have returned: one the value "v1" of its
\* expression, one the failure of its expression, and the trigger, whose
\* expression would have yielded Ok.
C11_Witness ==
    \E i, j, k \in DOMAIN calls :
        /\ calls[i].res.tag = "Ok" /\ calls[i].res.val = "v1"
        /\ calls[j].res.tag = "Err" /\ calls[j].res.kind = "NotFound"
        /\ calls[k].res.tag = "Err" /\ calls[k].res.kind = "Other"
        /\ PlainOk(calls[k])

\* C12. Strict variant: a function that evaluates a sequence of fallible!
\* statements returns the failure of the first one whose maybe! yields a
\* failure, injected or forwarded, and starts none of the later statements
\* (which therefore do not decrement the counter); while the maybe! calls
\* yield Ok it goes on with their unwrapped values, to its own Ok.
C12_StrictVariant ==
    \A t \in Threads :
        LET c == caller[t]
            n == Len(c.got)
        IN /\ \A k \in 1..(n - 1) : c.got[k].tag = "Ok"
           /\ c.vals = [k \in 1..Len(c.vals) |-> c.got[k].val]
           /\ c.started <= Len(c.prog)
           /\ c.ret.tag = "Err" =>
                /\ ~ c.active /\ n >= 1
                /\ c.got[n] = c.ret
                /\ c.started = n /\ Len(c.vals) = n - 1
           /\ c.ret.tag = "Ok" =>
                /\ ~ c.active
                /\ n = Len(c.prog) /\ c.started = n /\ Len(c.vals) = n
                /\ \A k \in 1..n : c.got[k].tag = "Ok"
           /\ c.active =>
                /\ c.ret = NoResult
                /\ \A k \in 1..n : c.got[k].tag = "Ok"
                /\ Len(c.vals) = n /\ c.started \in { n, n + 1 }

\* C12's case: a function of two fallible! statements has returned the
\* injected failure of its first statement and has not started the second.
C12_Witness ==
    /\ Len(caller[1].prog) = 2
    /\ caller[1].started = 1
    /\ caller[1].ret.tag = "Err" /\ caller[1].ret.kind = "Other"
    /\ caller[1].ret.msg =
          << "injected fault at ", "app", ":", "src/worker1.rs", ":", "10" >>

\* C13. The maximum disables injection: while the counter was last set to
\* u64::MAX, by its initial value or by a store, no maybe! call that
\* decrements is a trigger: none returns an injected failure and none
\* invokes the trigger function.
C13_MaxDisables ==
    armed = <<LimbBase - 1, LimbBase - 1, LimbBase - 1, LimbBase - 1>> =>
        /\ \A i \in DOMAIN calls :
              /\ calls[i].prev # U64(1)
              /\ calls[i].cb = <<>>
              /\ Finished(calls[i])
                   => calls[i].res # ExpectedInjected(calls[i].site)
        /\ \A p \in Frames :
              FrameAt(p).slot # 0 =>
                  FrameAt(p).cb = <<>> /\ FrameAt(p).pc \notin TriggerPcs

\* C13's case: with a trigger function registered, two calls returned,
\* then u64::MAX was stored in the counter, and two more calls have
\* returned since.
C13_Witness ==
    /\ armed = U64_MAX /\ TRIGGER_FN # NullFn
    /\ ncalls = 4 /\ stack[1] = <<>>
    /\ Len(calls) = 2
    /\ Finished(calls[1]) /\ Finished(calls[2])

\* C14. Delay non-blocking: whatever the positive value of SLEEPINESS and
\* the timestamp, 0 included, a maybe! call that has begun goes through its
\* yield loop, decrements the counter and returns a result.
C14_DelayNonBlocking ==
    [](stack[1] # <<>> => <>(stack[1] = <<>>))

\* C15. Re-arming from the trigger function: when the trigger function
\* stores k >= 1 in the counter, the call that triggered still returns its
\* injected failure, and of the calls that decrement after that store the
\* k-th is the next trigger, the k-1 before it passing their expressions
\* through.
C15_RearmFromCallback ==
    trig # <<>> =>
        /\ trig[1].res # NoResult
             => trig[1].res = ExpectedInjected(trig[1].site)
        /\ IsSmall(armed) /\ Low(armed) >= 1
        /\ \A i \in DOMAIN calls :
              LET c == calls[i] IN
              /\ c.prev = U64(1) <=> i = Low(armed)
              /\ (i < Low(armed) /\ Finished(c)) =>
                    /\ c.cb = <<>> /\ c.ev = 1
                    /\ c.res.tag = OpResult(c).tag
                    /\ c.res.val = OpResult(c).val

\* C15's case: the trigger function stored 2; the call that triggered has
\* returned its injected failure, and since the store a call has returned
\* Ok and the next call, of the other thread, has observed 1.
C15_Witness ==
    /\ trig # <<>> /\ trig[1].res.kind = "Other"
    /\ armed = U64(2) /\ Len(calls) = 2
    /\ calls[1].res.tag = "Ok" /\ calls[2].prev = U64(1)
    /\ calls[1].thread # calls[2].thread

\* C16. Short-circuit: a call that is the trigger never evaluates its
\* wrapped expression, and a call that is not evaluates it exactly once.
C16_ShortCircuit ==
    /\ \A i \in DOMAIN calls :
          LET c == calls[i] IN
          Finished(c) =>
              /\ c.prev = U64(1) => (c.ev = 0 /\ c.e = NoResult)
              /\ c.prev # U64(1) => c.ev = 1
    /\ \A p \in Frames :
          /\ FrameAt(p).ev <= 1
          /\ FrameAt(p).prev = U64(1) => FrameAt(p).ev = 0

\* C16's case: a call that evaluated its expression, a nested maybe!, once,
\* and the trigger, which skipped its expression, have both returned.
C16_Witness ==
    \E i, j \in DOMAIN calls :
        /\ Finished(calls[i]) /\ calls[i].prev = U64(1) /\ calls[i].ev = 0
        /\ Finished(calls[j]) /\ calls[j].ev = 1 /\ calls[j].expr.nested

\* The counter n decrements after the last store leave, modulo 2^64.
CounterAfter(n) ==
    IF armed = U64_MAX THEN << LimbBase - 1, LimbBase - 1, LimbBase - 1,
                               LimbBase - 1 - n >>
    ELSE IF n <= Low(armed) THEN << 0, 0, 0, Low(armed) - n >>
    ELSE << LimbBase - 1, LimbBase - 1, LimbBase - 1,
            LimbBase - (n - Low(armed)) >>

\* C17. Every maybe! call decrements the counter exactly once, whether its
\* expression yields Ok, yields a failure or is skipped by the trigger: the
\* counter is the value last stored minus the number of calls that went
\* through their fetch_sub, each of which is one call.  No step of a call
\* changes SLEEPINESS or TRIGGER_FN.
C17_OneDecrement ==
    /\ [](/\ FAULT_INJECT_COUNTER = CounterAfter(Len(calls))
          /\ \A p \in Frames :
                LET f == FrameAt(p) IN
                /\ f.prev = NoU64 <=> f.pc \in { "yield", "fetch_sub", "panic" }
                /\ f.slot # 0 =>
                     /\ f.slot <= Len(calls) /\ f.prev # NoU64
                     /\ calls[f.slot].thread = p[1]
                     /\ calls[f.slot].site = f.site
                     /\ calls[f.slot].prev = f.prev
                     /\ ~ Finished(calls[f.slot])
          /\ \A p, q \in Frames :
                (p # q /\ FrameAt(p).slot # 0)
                => FrameAt(p).slot # FrameAt(q).slot)
    /\ [][ (SLEEPINESS' # SLEEPINESS \/ TRIGGER_FN' # TRIGGER_FN)
           => (stack' = stack /\ calls' = calls /\ ncalls' = ncalls) ]_vars

\* C17's case: after a store of 3, a call returned Ok, a call forwarded a
\* failure and a call was the trigger, and the counter is 0.
C17_Witness ==
    /\ ArmedTo(3) /\ Len(calls) = 3
    /\ calls[1].res.tag = "Ok"
    /\ calls[2].res.tag = "Err" /\ calls[2].res.kind = "NotFound"
    /\ calls[3].res.tag = "Err" /\ calls[3].res.kind = "Other"
    /\ FAULT_INJECT_COUNTER = U64(0)

\* C18. Monotonic countdown across threads: once a call has observed the
\* pre-decrement value 1, every call that decrements after it, by any
\* thread and with no store in between, observes 1 or less.
C18_MonotonicCountdown ==
    \A i, j \in DOMAIN calls :
        (i < j /\ calls[i].prev = U64(1))
        => (calls[j].prev = U64(0) \/ calls[j].prev = U64(1))

\* C19. Under any interleaving of the calls of several threads after one
\* store of N >= 1, at most one call is a trigger, returning an injected
\* failure after at most one invocation of the trigger function, and it is
\* the call that observed the pre-decrement value 1.
C19_AtMostOneTrigger ==
    (IsSmall(armed) /\ Low(armed) >= 1) =>
        LET T == { i \in DOMAIN calls :
                     \/ calls[i].cb # <<>>
                     \/ calls[i].res = ExpectedInjected(calls[i].site) }
        IN /\ Cardinality(T) <= 1
           /\ \A i \in T : /\ calls[i].prev = U64(1)
                           /\ i = Low(armed)
                           /\ Len(calls[i].cb) <= 1
           /\ \A p \in Frames :
                 (FrameAt(p).slot # 0 /\ FrameAt(p).pc \in TriggerPcs)
                 => FrameAt(p).prev = U64(1)

\* C19's case: after a store of 2 the two threads have each finished a
\* call; the one that decremented second returned the injected failure
\* after one invocation of the trigger function, the other returned Ok.
C19_Witness ==
    /\ ArmedTo(2) /\ Len(calls) = 2
    /\ calls[1].thread # calls[2].thread
    /\ calls[1].res.tag = "Ok"
    /\ calls[2].res.kind = "Other" /\ Len(calls[2].cb) = 1

\* C20. The jitter count fits: for every value of SLEEPINESS and every
\* 16-bit timestamp, the product of the timestamp's trailing zeros (16 for
\* the timestamp 0) and SLEEPINESS is below 2^32.
C20_JitterFits ==
    [][ \A expr \in LeafExprs, rdtsc \in DelayTimestamps :
          (SLEEPINESS # <<0, 0>> /\ Begin(1, expr, MaxDelayCalls, rdtsc))
          => LET tz == IF rdtsc = 0 THEN 16 ELSE TrailingZeros(rdtsc, 16)
             IN tz * SLEEPINESS[1] + (tz * SLEEPINESS[2]) \div LimbBase
                  < LimbBase ]_vars

====
